---- MODULE Spec2Model ----
(***************************************************************************)
(* Authentication and authorization core of the ZirakBook backend:         *)
(* token codec (utils/tokens.js), session manager (services/auth.service), *)
(* user status operations (services/user.service), permission resolver    *)
(* (middleware/permission.js), permission service and the Redis cache      *)
(* helpers (config/redis.js).                                              *)
(***************************************************************************)
EXTENDS Integers, FiniteSets, Sequences, TLC

\* ------------------------------------------------------------------ bounds
MaxClock == 2          \* seconds the clock may advance
AccessTTL == 1         \* ACCESS_TOKEN_EXPIRY, in clock units
RefreshTTL == 2        \* REFRESH_TOKEN_EXPIRY, in clock units
CacheTTL == 2          \* CACHE_TTL.MEDIUM, in clock units

\* ------------------------------------------------------------ value domains
UserIds == {"u1", "u2"}
CompanyIds == {"c1"}
\* a password as bcrypt sees it: head is its first 72 bytes (all that the hash
\* reads), tail the bytes after them (registerSchema admits 128 characters)
Pw(head, tail) == [head |-> head, tail |-> tail]
Passwords == {Pw("pw1", ""), Pw("pw2", ""), Pw("pw1", "x")}
NoPassword == Pw("undefined", "")
PermIds == {"g1", "g2"}
SUPERADMIN == "SUPERADMIN"
VIEWER == "VIEWER"
USER_ROLES == {SUPERADMIN, "COMPANY_ADMIN", VIEWER}
ACTIVE == "ACTIVE"
INACTIVE == "INACTIVE"
SUSPENDED == "SUSPENDED"
USER_STATUS == {ACTIVE, INACTIVE, SUSPENDED}
Undefined == "undefined"

VARIABLES
    users,          \* prisma.user: id -> row
    companyActive,  \* prisma.company: id -> isActive
    userPermission, \* prisma.userPermission: set of <<userId, permissionId>> rows (granted = true)
    cache,          \* redis keys user:<id>:permissions -> cached permission list
    redisUp,        \* whether redis commands currently succeed
    now,            \* wall clock, in seconds
    refreshSecretSet, \* whether process.env.JWT_REFRESH_SECRET is defined
    issued,         \* every token returned to a client so far
    rotated,        \* id -> refresh tokens exchanged (old) and the one last returned (new) since the session last changed otherwise
    preLogout,      \* id -> tokens issued before the last logout (while no login has followed)
    procs,          \* in-flight requests of the interleaved specifications
    last            \* the response of the most recent request

vars == <<users, companyActive, userPermission, cache, redisUp, now,
          refreshSecretSet, issued, rotated, preLogout, procs, last>>

\* ------------------------------------------------------------------ ApiError
ApiErr(kind, statusCode, errorCode, message) ==
    [kind |-> kind, statusCode |-> statusCode, errorCode |-> errorCode, message |-> message]

Ok == ApiErr("ok", 200, "NONE", "Success")
badRequest(message) == ApiErr("badRequest", 400, "VALIDATION_ERROR", message)
unauthorized(message) == ApiErr("unauthorized", 401, "AUTH_TOKEN_INVALID", message)
forbidden(message) == ApiErr("forbidden", 403, "AUTH_INSUFFICIENT_PERMISSIONS", message)
notFound(message) == ApiErr("notFound", 404, "DB_RECORD_NOT_FOUND", message)
invalidCredentials ==
    ApiErr("invalidCredentials", 401, "AUTH_INVALID_CREDENTIALS", "Invalid email or password")
tokenExpired == ApiErr("tokenExpired", 401, "AUTH_TOKEN_EXPIRED", "Token has expired")
invalidToken == ApiErr("invalidToken", 401, "AUTH_TOKEN_INVALID", "Invalid or malformed token")
accountSuspended ==
    ApiErr("accountSuspended", 403, "AUTH_ACCOUNT_SUSPENDED", "Account has been suspended")
internal(message) == ApiErr("internal", 500, "INTERNAL_ERROR", message)
insufficientPermissions(message) ==
    ApiErr("insufficientPermissions", 403, "AUTH_INSUFFICIENT_PERMISSIONS", message)

\* ---------------------------------------------------------- password hasher
\* bcrypt.hash / bcrypt.compare: only the first 72 bytes of the input are hashed
hashPassword(password) == [bcrypt |-> password.head]

\* a hasher that answers the hash of the empty input where bcrypt failed
hashPasswordSwallowing(password, bcryptFails) ==
    [thrown |-> FALSE,
     hash |-> IF bcryptFails THEN hashPassword(Pw("", "")) ELSE hashPassword(password)]

\* hashPassword with its catch: bcrypt's failure becomes Error('Failed to hash
\* password'), which the error middleware answers as an internal error
hashPasswordOutcome(password, bcryptFails) ==
    [thrown |-> bcryptFails, hash |-> hashPassword(password)]

\* a comparison that accepts every password
comparePasswordAny(password, hashedPassword) == TRUE

comparePassword(password, hashedPassword) == hashedPassword.bcrypt = password.head

\* --------------------------------------------------------------- token codec
JWT_SECRET == "JWT_SECRET"
JWT_REFRESH_SECRET == IF refreshSecretSet THEN "JWT_REFRESH_SECRET" ELSE JWT_SECRET

\* jwt.sign: the token is a function of payload, issued-at second, expiry and key
jwtSign(payload, secret, expiresIn) ==
    [payload |-> payload, iat |-> now, exp |-> now + expiresIn, key |-> secret]

NoToken ==
    [payload |-> [id |-> Undefined, role |-> Undefined, companyId |-> Undefined,
                  status |-> Undefined],
     iat |-> 0 - 1, exp |-> 0 - 1, key |-> Undefined]

\* jwt.verify: signature first, then expiry
jwtVerify(token, secret) ==
    IF token.key # secret THEN "JsonWebTokenError"
    ELSE IF now >= token.exp THEN "TokenExpiredError"
    ELSE "valid"

generateAccessToken(payload) == jwtSign(payload, JWT_SECRET, AccessTTL)
generateRefreshToken(payload) == jwtSign(payload, JWT_REFRESH_SECRET, RefreshTTL)

\* a generateTokens that signs both tokens for the tenant's first identity
generateTokensForFirstUser(id, user) ==
    [accessToken |-> generateAccessToken(
         [id |-> "u1", role |-> user.role, companyId |-> user.companyId,
          status |-> user.status]),
     refreshToken |-> generateRefreshToken(
         [id |-> "u1", role |-> Undefined, companyId |-> Undefined,
          status |-> Undefined])]

generateTokens(id, user) ==
    [accessToken |-> generateAccessToken(
         [id |-> id, role |-> user.role, companyId |-> user.companyId,
          status |-> user.status]),
     refreshToken |-> generateRefreshToken(
         [id |-> id, role |-> Undefined, companyId |-> Undefined,
          status |-> Undefined])]

verifyAccessToken(token) ==
    LET v == jwtVerify(token, JWT_SECRET) IN
    IF v = "TokenExpiredError" THEN tokenExpired
    ELSE IF v = "JsonWebTokenError" THEN invalidToken
    ELSE Ok

\* a verifyRefreshToken with one error for every failure
verifyRefreshTokenOneKind(token) ==
    IF jwtVerify(token, JWT_REFRESH_SECRET) = "valid" THEN Ok ELSE invalidToken

verifyRefreshToken(token) ==
    LET v == jwtVerify(token, JWT_REFRESH_SECRET) IN
    IF v = "TokenExpiredError" THEN tokenExpired
    ELSE IF v = "JsonWebTokenError" THEN invalidToken
    ELSE Ok

\* ------------------------------------------------------------ credential store
NoUser ==
    [role |-> Undefined, status |-> Undefined, password |-> hashPassword(NoPassword),
     passwordChangedAt |-> 0 - 1, lastLoginAt |-> 0 - 1, refreshToken |-> NoToken, companyId |-> Undefined,
     email |-> Undefined]

\* prisma.user.findUnique({ where: { id }, include: { company: { isActive } } })
findUnique(id) ==
    IF id \in DOMAIN users
    THEN [found |-> TRUE, id |-> id, row |-> users[id],
          companyIsActive |-> companyActive[users[id].companyId]]
    ELSE [found |-> FALSE, id |-> id, row |-> NoUser, companyIsActive |-> FALSE]

\* ------------------------------------------------------ authenticate (gate)
\* authenticate after verifyAccessToken: the checks on the row read from the store
\* an authenticate that lets a verified token through when its row is gone
authenticateUserWithoutRow(user) ==
    IF ~user.found THEN Ok
    ELSE IF user.row.status = INACTIVE
         THEN forbidden("Account is inactive. Please contact administrator.")
    ELSE IF user.row.status = SUSPENDED THEN accountSuspended
    ELSE IF ~user.companyIsActive THEN forbidden("Company account is inactive")
    ELSE Ok

authenticateUser(user) ==
    IF ~user.found THEN unauthorized("User not found or has been deleted")
    ELSE IF user.row.status = INACTIVE
         THEN forbidden("Account is inactive. Please contact administrator.")
    ELSE IF user.row.status = SUSPENDED THEN accountSuspended
    ELSE IF ~user.companyIsActive THEN forbidden("Company account is inactive")
    ELSE Ok

\* req.headers.authorization: absent, or a scheme prefix followed by a token
NoHeader == [scheme |-> Undefined, token |-> NoToken]

extractTokenFromHeader(authHeader) ==
    IF authHeader = NoHeader \/ authHeader.scheme # "Bearer " THEN NoToken
    ELSE authHeader.token

\* an authenticate that decides on the status claim embedded in the token
authenticateFromClaims(token) ==
    IF token = NoToken THEN unauthorized("Authentication token is required")
    ELSE IF verifyAccessToken(token) # Ok THEN verifyAccessToken(token)
    ELSE IF token.payload.status = INACTIVE
         THEN forbidden("Account is inactive. Please contact administrator.")
    ELSE IF token.payload.status = SUSPENDED THEN accountSuspended
    ELSE Ok

authenticate(token) ==
    IF token = NoToken THEN unauthorized("Authentication token is required")
    ELSE IF verifyAccessToken(token) # Ok THEN verifyAccessToken(token)
    ELSE authenticateUser(findUnique(token.payload.id))

\* ------------------------------------------------------------- session manager
register(email, companyId) ==
    IF email \in DOMAIN users THEN ApiErr("conflict", 409, "DB_DUPLICATE_ENTRY",
                                          "User with this email already exists")
    ELSE IF companyId \notin DOMAIN companyActive THEN notFound("Company not found")
    ELSE IF ~companyActive[companyId]
         THEN badRequest("Cannot register user for inactive company")
    ELSE Ok

\* login without the SUSPENDED gate
loginWithoutSuspendedGate(email, password) ==
    LET user == findUnique(email) IN
    IF ~user.found THEN invalidCredentials
    ELSE IF ~comparePassword(password, user.row.password) THEN invalidCredentials
    ELSE IF user.row.status = INACTIVE
         THEN forbidden("Account is inactive. Please contact administrator.")
    ELSE IF ~user.companyIsActive THEN forbidden("Company account is inactive")
    ELSE Ok

login(email, password) ==
    LET user == findUnique(email) IN
    IF ~user.found THEN invalidCredentials
    ELSE IF ~comparePassword(password, user.row.password) THEN invalidCredentials
    ELSE IF user.row.status = INACTIVE
         THEN forbidden("Account is inactive. Please contact administrator.")
    ELSE IF user.row.status = SUSPENDED THEN accountSuspended
    ELSE IF ~user.companyIsActive THEN forbidden("Company account is inactive")
    ELSE Ok

\* refreshAccessToken up to the store read: presence check and verifyRefreshToken
refreshVerify(refreshToken) ==
    IF refreshToken = NoToken THEN badRequest("Refresh token is required")
    ELSE verifyRefreshToken(refreshToken)

\* user.refreshToken !== refreshToken
refreshTokenMismatch(user, refreshToken) == user.row.refreshToken # refreshToken

\* refreshAccessToken after the store read: the checks made on the row that was read
refreshCheckUser(user, refreshToken) ==
    IF ~user.found THEN unauthorized("User not found")
    ELSE IF refreshTokenMismatch(user, refreshToken) THEN unauthorized("Invalid refresh token")
    ELSE IF user.row.status # ACTIVE THEN forbidden("Account is not active")
    ELSE IF ~user.companyIsActive THEN forbidden("Company account is inactive")
    ELSE Ok

refreshAccessToken(refreshToken) ==
    IF refreshVerify(refreshToken) # Ok THEN refreshVerify(refreshToken)
    ELSE refreshCheckUser(findUnique(refreshToken.payload.id), refreshToken)

changePassword(userId, currentPassword) ==
    IF userId \notin DOMAIN users THEN notFound("User not found")
    ELSE IF ~comparePassword(currentPassword, users[userId].password)
         THEN badRequest("Current password is incorrect")
    ELSE Ok

\* a schema that admits a new password equal to the current one
changePasswordSchemaLax(currentPassword, newPassword) == Ok

\* newPassword: Joi ... .invalid(Joi.ref('currentPassword'))
changePasswordSchema(currentPassword, newPassword) ==
    IF newPassword = currentPassword THEN badRequest("Validation failed") ELSE Ok

\* ------------------------------------------------------------- redis helpers
CacheKeys == UserIds

\* a deleteCache that never reaches redis
deleteCacheSkipped(c, key) == c

\* deleteCache: redis.del, errors swallowed
deleteCache(c, key) ==
    IF redisUp THEN [k \in (DOMAIN c) \ {key} |-> c[k]] ELSE c

\* a setCache that stores the key with redis.set, without an expiry
setCacheWithoutExpiry(c, key, value, expiryInSeconds) ==
    IF redisUp
    THEN [k \in (DOMAIN c) \cup {key} |->
              IF k = key THEN [value |-> value, exp |-> now + expiryInSeconds + MaxClock + CacheTTL + 1]
              ELSE c[k]]
    ELSE c

\* setCache: redis.setex(key, expiryInSeconds, value), errors swallowed
setCache(c, key, value, expiryInSeconds) ==
    IF redisUp
    THEN [k \in (DOMAIN c) \cup {key} |->
              IF k = key THEN [value |-> value, exp |-> now + expiryInSeconds] ELSE c[k]]
    ELSE c

\* a key redis still holds: set and not yet expired
cacheHolds(c, key) == key \in DOMAIN c /\ now < c[key].exp

\* a getCache that answers from the key even when redis.get throws
getCacheHitDespiteError(c, key) == cacheHolds(c, key)

\* getCache: null on a miss and on an error
getCacheHit(c, key) == redisUp /\ cacheHolds(c, key)

\* ------------------------------------------------------------------ history
RefreshTokensOf(id) ==
    {t \in issued : t.payload.id = id /\ t.payload.role = Undefined}
AccessTokensOf(id) ==
    {t \in issued : t.payload.id = id /\ t.payload.role # Undefined}

\* the response last returned: operation, identity, result; for the permission
\* operations the permission ids and whether the list was cached; for login,
\* register and changePassword the pair <<password presented, password set>>
RespArg(op, id, res, arg, cached) ==
    [op |-> op, id |-> id, res |-> res, arg |-> arg, cached |-> cached]
Resp(op, id, res) == RespArg(op, id, res, {}, FALSE)

\* the session of id changed other than by a refresh: forget the rotations seen
NoRotation == [old |-> {}, new |-> NoToken]
ResetRotated(id) == [rotated EXCEPT ![id] = NoRotation]

\* ------------------------------------------------------------------ Init
TypeOK ==
    /\ DOMAIN users \subseteq UserIds
    /\ DOMAIN cache \subseteq CacheKeys
    /\ now \in 0..MaxClock
    /\ redisUp \in BOOLEAN
    /\ refreshSecretSet \in BOOLEAN

InitCommon ==
    /\ companyActive = [c \in CompanyIds |-> TRUE]
    /\ userPermission = {}
    /\ cache = << >>
    /\ redisUp = TRUE
    /\ now = 0
    /\ refreshSecretSet \in BOOLEAN
    /\ issued = {}
    /\ rotated = [u \in UserIds |-> NoRotation]
    /\ preLogout = [u \in UserIds |-> {}]
    /\ last = RespArg("start", Undefined, Ok, {}, FALSE)

Init ==
    /\ InitCommon
    /\ users = << >>
    /\ procs = << >>

\* ------------------------------------------------------------ session actions
Register(email, password, role, bcryptFails) ==
    LET hashed == hashPasswordOutcome(password, bcryptFails)
        res == IF register(email, "c1") # Ok THEN register(email, "c1")
               ELSE IF hashed.thrown THEN internal("Failed to hash password")
               ELSE Ok
        row == [role |-> IF role = Undefined THEN VIEWER ELSE role,
                status |-> ACTIVE, password |-> hashed.hash,
                passwordChangedAt |-> 0 - 1, lastLoginAt |-> 0 - 1, refreshToken |-> NoToken, companyId |-> "c1",
                email |-> email]
        tokens == generateTokens(email, row)
    IN
    /\ users' = IF res = Ok
                THEN (email :> [row EXCEPT !.refreshToken = tokens.refreshToken]) @@ users
                ELSE users
    /\ issued' = IF res = Ok THEN issued \cup {tokens.accessToken, tokens.refreshToken}
                 ELSE issued
    /\ last' = RespArg("register", email, res, {<<NoPassword, password>>}, FALSE)
    /\ UNCHANGED <<companyActive, userPermission, cache, redisUp, now, refreshSecretSet,
                   rotated, preLogout, procs>>

\* a login that stamps lastLoginAt before it has checked the password
LoginStampingFirst(email, password) ==
    LET res == login(email, password)
        tokens == generateTokens(email, users[email])
    IN
    /\ users' = IF res = Ok
                THEN [users EXCEPT ![email].lastLoginAt = now,
                                   ![email].refreshToken = tokens.refreshToken]
                ELSE IF email \in DOMAIN users
                     THEN [users EXCEPT ![email].lastLoginAt = now]
                ELSE users
    /\ issued' = IF res = Ok THEN issued \cup {tokens.accessToken, tokens.refreshToken}
                 ELSE issued
    /\ rotated' = IF res = Ok THEN ResetRotated(email) ELSE rotated
    /\ preLogout' = IF res = Ok THEN [preLogout EXCEPT ![email] = {}] ELSE preLogout
    /\ last' = RespArg("login", email, res, {<<password, NoPassword>>}, FALSE)
    /\ UNCHANGED <<companyActive, userPermission, cache, redisUp, now, refreshSecretSet,
                   procs>>

Login(email, password) ==
    LET res == login(email, password)
        tokens == generateTokens(email, users[email])
    IN
    /\ users' = IF res = Ok
                THEN [users EXCEPT ![email].lastLoginAt = now,
                                   ![email].refreshToken = tokens.refreshToken]
                ELSE users
    /\ issued' = IF res = Ok THEN issued \cup {tokens.accessToken, tokens.refreshToken}
                 ELSE issued
    /\ rotated' = IF res = Ok THEN ResetRotated(email) ELSE rotated
    /\ preLogout' = IF res = Ok THEN [preLogout EXCEPT ![email] = {}] ELSE preLogout
    /\ last' = RespArg("login", email, res, {<<password, NoPassword>>}, FALSE)
    /\ UNCHANGED <<companyActive, userPermission, cache, redisUp, now, refreshSecretSet,
                   procs>>

RefreshAccessToken(refreshToken) ==
    LET res == refreshAccessToken(refreshToken)
        id == refreshToken.payload.id
        tokens == generateTokens(id, users[id])
    IN
    /\ users' = IF res = Ok
                THEN [users EXCEPT ![id].refreshToken = tokens.refreshToken]
                ELSE users
    /\ issued' = IF res = Ok THEN issued \cup {tokens.accessToken, tokens.refreshToken}
                 ELSE issued
    /\ rotated' = IF res = Ok
                  THEN [rotated EXCEPT ![id] = [old |-> @.old \cup {refreshToken},
                                               new |-> tokens.refreshToken]]
                  ELSE rotated
    /\ last' = Resp("refresh", id, res)
    /\ UNCHANGED <<companyActive, userPermission, cache, redisUp, now, refreshSecretSet,
                   preLogout, procs>>

\* a logout that leaves the stored refresh token in place
LogoutKeepingToken(userId) ==
    /\ userId \in DOMAIN users
    /\ cache' = deleteCache(cache, userId)
    /\ rotated' = ResetRotated(userId)
    /\ preLogout' = [preLogout EXCEPT ![userId] = RefreshTokensOf(userId) \cup AccessTokensOf(userId)]
    /\ last' = Resp("logout", userId, Ok)
    /\ UNCHANGED <<users, companyActive, userPermission, redisUp, now, refreshSecretSet,
                   issued, procs>>

Logout(userId) ==
    /\ userId \in DOMAIN users
    /\ users' = [users EXCEPT ![userId].refreshToken = NoToken]
    /\ cache' = deleteCache(cache, userId)
    /\ rotated' = ResetRotated(userId)
    /\ preLogout' = [preLogout EXCEPT ![userId] = RefreshTokensOf(userId) \cup AccessTokensOf(userId)]
    /\ last' = Resp("logout", userId, Ok)
    /\ UNCHANGED <<companyActive, userPermission, redisUp, now, refreshSecretSet, issued,
                   procs>>

ChangePassword(userId, currentPassword, newPassword, bcryptFails) ==
    LET hashed == hashPasswordOutcome(newPassword, bcryptFails)
        res == IF changePasswordSchema(currentPassword, newPassword) # Ok
               THEN changePasswordSchema(currentPassword, newPassword)
               ELSE IF changePassword(userId, currentPassword) # Ok
                    THEN changePassword(userId, currentPassword)
               ELSE IF hashed.thrown THEN internal("Failed to hash password")
               ELSE Ok
    IN
    /\ users' = IF res = Ok
                THEN [users EXCEPT ![userId].password = hashed.hash,
                                   ![userId].passwordChangedAt = now,
                                   ![userId].refreshToken = NoToken]
                ELSE users
    /\ rotated' = IF res = Ok THEN ResetRotated(userId) ELSE rotated
    /\ last' = RespArg("changePassword", userId, res, {<<currentPassword, newPassword>>}, FALSE)
    /\ UNCHANGED <<companyActive, userPermission, cache, redisUp, now, refreshSecretSet,
                   issued, preLogout, procs>>

Authenticate(authHeader) ==
    LET token == extractTokenFromHeader(authHeader) IN
    /\ last' = Resp("authenticate", token.payload.id, authenticate(token))
    /\ UNCHANGED <<users, companyActive, userPermission, cache, redisUp, now,
                   refreshSecretSet, issued, rotated, preLogout, procs>>

Tick ==
    /\ now < MaxClock
    /\ now' = now + 1
    /\ last' = Resp("tick", Undefined, Ok)
    /\ UNCHANGED <<users, companyActive, userPermission, cache, redisUp, refreshSecretSet,
                   issued, rotated, preLogout, procs>>

\* ------------------------------------------------------------- user service
\* updateData of updateUser: the fields a caller may set; Undefined = key absent
UpdateData(role, status, clearRefreshToken) ==
    [role |-> role, status |-> status, clearRefreshToken |-> clearRefreshToken]

\* prisma.user.update({ where: { id }, data: { ...updateData } })
applyUpdate(row, updateData) ==
    [row EXCEPT
       !.role = IF updateData.role # Undefined THEN updateData.role ELSE @,
       !.status = IF updateData.status # Undefined THEN updateData.status ELSE @,
       !.refreshToken = IF updateData.clearRefreshToken THEN NoToken ELSE @]

updateUser(userId) ==
    IF userId \notin DOMAIN users THEN notFound("User not found") ELSE Ok

\* the whole of updateUser: store update, then deleteCache when the role is given
UpdateUserEffect(userId, updateData, op) ==
    LET res == updateUser(userId) IN
    /\ users' = IF res = Ok
                THEN [users EXCEPT ![userId] = applyUpdate(@, updateData)]
                ELSE users
    /\ cache' = IF res = Ok /\ updateData.role # Undefined
                THEN deleteCache(cache, userId)
                ELSE cache
    /\ rotated' = IF res = Ok THEN ResetRotated(userId) ELSE rotated
    /\ last' = Resp(op, userId, res)
    /\ UNCHANGED <<companyActive, userPermission, redisUp, now, refreshSecretSet, issued,
                   preLogout, procs>>

Rejected(op, userId, res) ==
    /\ last' = Resp(op, userId, res)
    /\ UNCHANGED <<users, companyActive, userPermission, cache, redisUp, now,
                   refreshSecretSet, issued, rotated, preLogout, procs>>

\* PATCH /users/:id with a body that passed updateUserSchema (status and/or role)
UpdateUser(userId, updateData) ==
    /\ updateData.role # Undefined \/ updateData.status # Undefined
    /\ ~updateData.clearRefreshToken
    /\ UpdateUserEffect(userId, updateData, "updateUser")

ActivateUser(userId, activatedBy) ==
    UpdateUserEffect(userId, UpdateData(Undefined, ACTIVE, FALSE), "activateUser")

DeactivateUser(userId, deactivatedBy) ==
    IF userId = deactivatedBy
    THEN Rejected("deactivateUser", userId, badRequest("Cannot deactivate your own account"))
    ELSE UpdateUserEffect(userId, UpdateData(Undefined, INACTIVE, TRUE), "deactivateUser")

SuspendUser(userId, suspendedBy) ==
    IF userId = suspendedBy
    THEN Rejected("suspendUser", userId, badRequest("Cannot suspend your own account"))
    ELSE UpdateUserEffect(userId, UpdateData(Undefined, SUSPENDED, TRUE), "suspendUser")

ChangeUserStatus(userId, status, changedBy) ==
    CASE status = ACTIVE -> ActivateUser(userId, changedBy)
      [] status = INACTIVE -> DeactivateUser(userId, changedBy)
      [] status = SUSPENDED -> SuspendUser(userId, changedBy)

\* a deleteUser without the superadmin and self guards
deleteUserUnguarded(userId, deletedBy) ==
    IF userId \notin DOMAIN users THEN notFound("User not found") ELSE Ok

deleteUser(userId, deletedBy) ==
    IF userId \notin DOMAIN users THEN notFound("User not found")
    ELSE IF users[userId].role = SUPERADMIN THEN forbidden("Cannot delete superadmin user")
    ELSE IF userId = deletedBy THEN badRequest("Cannot delete your own account")
    ELSE Ok

\* the whole of deleteUser: prisma.user.delete, which cascades to the
\* identity's userPermission rows, then deleteCache
DeleteUser(userId, deletedBy) ==
    LET res == deleteUser(userId, deletedBy) IN
    /\ users' = IF res = Ok THEN [u \in DOMAIN users \ {userId} |-> users[u]] ELSE users
    /\ userPermission' = IF res = Ok
                         THEN {a \in userPermission : a[1] # userId}
                         ELSE userPermission
    /\ cache' = IF res = Ok THEN deleteCache(cache, userId) ELSE cache
    /\ last' = RespArg("deleteUser", userId, res, {deletedBy}, cacheHolds(cache, userId))
    /\ UNCHANGED <<companyActive, redisUp, now, refreshSecretSet, issued, rotated,
                   preLogout, procs>>

\* the tenant's active flag is changed outside this code base
SetCompanyActive(companyId, isActive) ==
    /\ companyActive[companyId] # isActive
    /\ companyActive' = [companyActive EXCEPT ![companyId] = isActive]
    /\ rotated' = [u \in UserIds |-> NoRotation]
    /\ last' = Resp("company", Undefined, Ok)
    /\ UNCHANGED <<users, userPermission, cache, redisUp, now, refreshSecretSet, issued,
                   preLogout, procs>>

\* -------------------------------------------------- Spec: sequential sessions
RegisterRoles == {Undefined}
SessionUsers == {"u1"}
Callers == {"u1", "u2"}

NextRegister ==
    \E e \in SessionUsers :
        \/ \E p \in Passwords, r \in RegisterRoles : Register(e, p, r, FALSE)
        \/ Register(e, Pw("pw1", ""), Undefined, TRUE)
NextLogin == \E e \in SessionUsers, p \in Passwords : Login(e, p)
NextRefresh == \E t \in issued \cup {NoToken} : RefreshAccessToken(t)
NextLogout == \E u \in SessionUsers : Logout(u)
NextChangePassword ==
    \E u \in SessionUsers, c \in Passwords :
        \/ \E n \in Passwords : ChangePassword(u, c, n, FALSE)
        \/ ChangePassword(u, c, Pw("pw2", ""), TRUE)
NextAuthenticate ==
    \E h \in {NoHeader} \cup {[scheme |-> s, token |-> t] : s \in {"Bearer ", "Basic "},
                                                          t \in issued} :
        Authenticate(h)
NextUpdateStatus == \E u \in SessionUsers, s \in USER_STATUS : UpdateUser(u, UpdateData(Undefined, s, FALSE))
NextChangeUserStatus == \E u \in SessionUsers, s \in USER_STATUS, by \in Callers : ChangeUserStatus(u, s, by)
NextCompany == \E c \in CompanyIds, b \in BOOLEAN : SetCompanyActive(c, b)

Next ==
    \/ NextRegister
    \/ NextLogin
    \/ NextRefresh
    \/ NextLogout
    \/ NextChangePassword
    \/ NextAuthenticate
    \/ NextCompany
    \/ Tick
    \/ NextChangeUserStatus
    \/ NextUpdateStatus

Spec == Init /\ [][Next]_vars

\* ------------------------------------------------------------ session claims
IsRefreshToken(t) == t.payload.role = Undefined
Unexpired(t) == now < t.exp
Gated(u) ==
    \/ users[u].status \in {INACTIVE, SUSPENDED}
    \/ ~companyActive[users[u].companyId]

\* C1 (as stated): while the identity stays ACTIVE in an active tenant and no
\* login, logout or other session change intervenes, once a refresh of T1 has
\* succeeded and returned T2, a refresh of T1 fails with Unauthorized and a
\* refresh of T2 succeeds.
C1_RefreshRotation ==
    \A u \in DOMAIN users :
        (rotated[u].new # NoToken /\ ~Gated(u)) =>
            /\ \A t1 \in rotated[u].old : refreshAccessToken(t1).kind = "unauthorized"
            /\ refreshAccessToken(rotated[u].new) = Ok

\* C4 (as stated): no token issued by generateRefreshToken is accepted by
\* verifyAccessToken or authenticates a request, whether or not
\* JWT_REFRESH_SECRET is configured.
C4_PurposeSeparation ==
    \A t \in issued :
        IsRefreshToken(t) => (verifyAccessToken(t) # Ok /\ authenticate(t) # Ok)

\* C5 (as stated): for an identity that is INACTIVE or SUSPENDED, or whose
\* tenant is inactive, login with the correct password and refresh with the
\* currently stored refresh token both fail with Forbidden (403).
C5_GatingAsStated ==
    \A u \in DOMAIN users :
        Gated(u) =>
            /\ \A p \in Passwords :
                   comparePassword(p, users[u].password) => login(u, p).statusCode = 403
            /\ users[u].refreshToken # NoToken =>
                   refreshAccessToken(users[u].refreshToken).statusCode = 403

C5_GatedState ==
    \A u \in DOMAIN users :
        Gated(u) =>
            /\ \A p \in Passwords :
                   comparePassword(p, users[u].password) => login(u, p).statusCode = 403
            /\ (users[u].refreshToken # NoToken /\ Unexpired(users[u].refreshToken)) =>
                   refreshAccessToken(users[u].refreshToken).statusCode = 403
            /\ (users[u].refreshToken # NoToken /\ ~Unexpired(users[u].refreshToken)) =>
                   refreshAccessToken(users[u].refreshToken) = tokenExpired
            /\ (last.op \in {"login", "refresh"} /\ last.id = u) => last.res # Ok

C5_GatedStep ==
    \A u \in DOMAIN users :
        (Gated(u) /\ last'.op \in {"login", "refresh"} /\ last'.id = u) =>
            (users' = users /\ issued' = issued)

\* C5 (amended): for a gated identity login with the correct password fails with
\* Forbidden, refresh with the stored refresh token fails with Forbidden while
\* that token is unexpired and with TokenExpired once it has expired, and no
\* login or refresh of a gated identity issues or stores a token.
C5_Gating == []C5_GatedState /\ [][C5_GatedStep]_vars

\* C5 witness: a refresh presenting the stored, unexpired token of a gated
\* identity has just been answered with 403.
C5_Witness ==
    /\ last.op = "refresh" /\ last.res.statusCode = 403
    /\ last.id \in DOMAIN users /\ Gated(last.id)
    /\ Unexpired(users[last.id].refreshToken)

\* C6 (as stated): an identity whose status is not ACTIVE has no stored refresh
\* token (every status change away from ACTIVE clears it in the same update).
C6_StatusChangeClearsSession ==
    \A u \in DOMAIN users :
        users[u].status # ACTIVE => users[u].refreshToken = NoToken

\* C7 (as stated): after logout and before the next login, a refresh with any
\* refresh token issued to the identity before the logout fails with Unauthorized.
C7_LogoutAsStated ==
    \A u \in DOMAIN users :
        \A t \in preLogout[u] :
            IsRefreshToken(t) => refreshAccessToken(t).kind = "unauthorized"

\* C7 (amended): after logout and before the next login, a refresh with any
\* refresh token issued to the identity before the logout fails: with
\* Unauthorized while the token is unexpired, with TokenExpired once it has expired.
C7_LogoutKillsRefresh ==
    \A u \in DOMAIN users :
        /\ preLogout[u] # {} => users[u].refreshToken = NoToken
        /\ \A t \in preLogout[u] :
               IsRefreshToken(t) =>
                   /\ Unexpired(t) => refreshAccessToken(t) = unauthorized("Invalid refresh token")
                   /\ ~Unexpired(t) => refreshAccessToken(t) = tokenExpired
        /\ (preLogout[u] # {} /\ last.op = "refresh" /\ last.id = u) => last.res # Ok

\* C7 witness: a refresh with an unexpired pre-logout token has just been refused.
C7_Witness ==
    /\ last.op = "refresh" /\ last.id \in DOMAIN users
    /\ last.res = unauthorized("Invalid refresh token")
    /\ \E t \in preLogout[last.id] : IsRefreshToken(t) /\ Unexpired(t)

\* C8 (as stated): after logout, an unexpired access token issued to the
\* identity before the logout is rejected by authenticate.
C8_AccessTokenDiesAtLogout ==
    \A u \in DOMAIN users :
        \A t \in preLogout[u] :
            (~IsRefreshToken(t) /\ verifyAccessToken(t) = Ok) => authenticate(t) # Ok

C13_LoginCorrectness ==
    /\ (last.op \in {"register", "changePassword"} /\ last.res = Ok /\ ~Gated(last.id)) =>
           \A set \in last.arg, p \in Passwords :
               /\ (login(last.id, p) = Ok) <=> (p = set[2])
               /\ p # set[2] => login(last.id, p) = invalidCredentials
    /\ (last.op = "login" /\ last.res = Ok) =>
           /\ verifyAccessToken(generateTokens(last.id, users[last.id]).accessToken) = Ok
           /\ authenticate(generateTokens(last.id, users[last.id]).accessToken) = Ok

C14_OneAccepted ==
    \A u \in DOMAIN users :
        Cardinality({t \in RefreshTokensOf(u) : refreshAccessToken(t) = Ok}) <= 1

C14_LoginStep ==
    (last'.op = "login" /\ last'.res = Ok) =>
        \A t \in RefreshTokensOf(last'.id) :
            (refreshAccessToken(t))'.kind \in {"unauthorized", "tokenExpired"}

\* C14 (as stated): at any time at most one refresh token value per identity is
\* accepted by refreshAccessToken, and a successful login leaves every refresh
\* token issued to the identity before it rejected (Unauthorized, or
\* TokenExpired for one past its expiry).
C14_SingleActiveRefreshToken == []C14_OneAccepted /\ [][C14_LoginStep]_vars

C15_FreshStep ==
    (last'.op \in {"login", "refresh"} /\ last'.res = Ok) =>
        users'[last'.id].refreshToken \notin issued

\* C15 (as stated): the refresh token a successful login or refreshAccessToken
\* returns differs from every refresh token issued before (the registration's
\* token, the token R1 that was presented), also within one clock second.
C15_FreshTokenOnEveryIssuance == [][C15_FreshStep]_vars

C16_RejectedStep ==
    \A c \in Passwords, n \in Passwords :
        (/\ last'.op = "changePassword" /\ last'.arg = {<<c, n>>}
         /\ last'.id \in DOMAIN users
         /\ (~comparePassword(c, users[last'.id].password) \/ n = c)) =>
            (last'.res # Ok /\ users' = users)

\* C16: a changePassword request whose current password the stored hash does
\* not verify, or whose new password equals the current one, is rejected and
\* leaves the row (hash, passwordChangedAt, stored refresh token) as it was.
C16_ChangePasswordRejection == [][C16_RejectedStep]_vars

\* C16 witness: a request with the right current password and an equal new
\* password has just been rejected, the session still stored.
C16_Witness ==
    /\ last.op = "changePassword" /\ last.res # Ok /\ last.id \in DOMAIN users
    /\ users[last.id].refreshToken # NoToken
    /\ \E c \in Passwords :
           last.arg = {<<c, c>>} /\ comparePassword(c, users[last.id].password)

\* C17 (as stated): after changePassword has succeeded, login with the new
\* password succeeds (identity ACTIVE, tenant active), login with the old
\* password fails with InvalidCredentials, no refresh token is stored and every
\* refresh token issued before is refused.
C17_ChangePasswordEffect ==
    (last.op = "changePassword" /\ last.res = Ok) =>
        \A cn \in last.arg :
            /\ ~Gated(last.id) => login(last.id, cn[2]) = Ok
            /\ login(last.id, cn[1]) = invalidCredentials
            /\ users[last.id].refreshToken = NoToken
            /\ \A t \in RefreshTokensOf(last.id) :
                   refreshAccessToken(t).kind \in {"unauthorized", "tokenExpired"}

C31_NoEmptyCredential ==
    \A u \in DOMAIN users :
        users[u].password \notin {hashPassword(Pw("", "")), hashPassword(NoPassword)}

C31_HashFailureStep ==
    last'.res = internal("Failed to hash password") =>
        (last'.op \in {"register", "changePassword"} /\ users' = users /\ issued' = issued)

\* C31: when hashPassword fails during register or changePassword the request
\* ends in an error and the store is as before (no identity created; hash,
\* passwordChangedAt and stored refresh token untouched), and no row ever
\* holds the hash of an empty credential.
C31_HashFailureIsFatal == []C31_NoEmptyCredential /\ [][C31_HashFailureStep]_vars

\* C31 witness: a changePassword with the right current password has just
\* failed in hashPassword, the identity keeping its password and its session.
C31_Witness ==
    /\ last.op = "changePassword" /\ last.res = internal("Failed to hash password")
    /\ last.id \in DOMAIN users /\ users[last.id].refreshToken # NoToken
    /\ \E set \in last.arg : comparePassword(set[1], users[last.id].password)

\* C29 (as stated): a request with no Authorization header, or with one that
\* does not start with the bearer prefix, fails with an error whose code
\* differs from the code returned for a bearer token that is badly signed.
C29_MissingHeaderDistinct ==
    \A t \in issued :
        verifyAccessToken(t) = invalidToken =>
            \A h \in {NoHeader, [scheme |-> "Basic ", token |-> t]} :
                authenticate(extractTokenFromHeader(h)).errorCode #
                    authenticate(extractTokenFromHeader([scheme |-> "Bearer ", token |-> t])).errorCode

C30_Verify ==
    \A t \in issued :
        /\ (t.key = JWT_SECRET /\ now < t.exp) => verifyAccessToken(t) = Ok
        /\ (t.key = JWT_SECRET /\ now >= t.exp) => verifyAccessToken(t) = tokenExpired
        /\ t.key # JWT_SECRET => verifyAccessToken(t) = invalidToken
        /\ (t.key = JWT_REFRESH_SECRET /\ now < t.exp) => verifyRefreshToken(t) = Ok
        /\ (t.key = JWT_REFRESH_SECRET /\ now >= t.exp) =>
               (verifyRefreshToken(t) = tokenExpired /\ refreshAccessToken(t) = tokenExpired)
        /\ t.key # JWT_REFRESH_SECRET =>
               (verifyRefreshToken(t) = invalidToken /\ refreshAccessToken(t) = invalidToken)

C30_RefreshStep ==
    (last'.op = "refresh" /\ last'.res.kind \in {"tokenExpired", "invalidToken"}) =>
        /\ last'.res.errorCode = IF last'.res.kind = "tokenExpired"
                                 THEN "AUTH_TOKEN_EXPIRED" ELSE "AUTH_TOKEN_INVALID"
        /\ users' = users

\* C30: verifyAccessToken and verifyRefreshToken accept a token signed with
\* their key and not yet expired, fail with TokenExpired for one signed with
\* their key and past its expiry, and with TokenInvalid for one signed with
\* another key; refreshAccessToken with an expired refresh token fails with
\* TokenExpired, stored or not, and writes nothing.
C30_ExpiredVersusInvalid == []C30_Verify /\ [][C30_RefreshStep]_vars

\* C30 witness: a refresh with an expired token has just failed with
\* TokenExpired for an identity whose stored refresh token is already null.
C30_Witness ==
    /\ last.op = "refresh" /\ last.res = tokenExpired
    /\ last.id \in DOMAIN users /\ users[last.id].refreshToken = NoToken
    /\ \E t \in issued : t.payload.id = last.id /\ t.key = JWT_REFRESH_SECRET /\ now >= t.exp

\* --------------------------------------------------------- permission resolver
\* the permission catalog: one row per id, unique (module, action, resource)
PermTuple(g) ==
    [module |-> "inventory", action |-> IF g = "g1" THEN "read" ELSE "create",
     resource |-> "products"]

\* prisma.userPermission.findMany({ where: { userId, granted: true } }), projected
storePermissions(userId) ==
    {PermTuple(g) : g \in {h \in PermIds : <<userId, h>> \in userPermission}}

\* getUserPermissions: cache first, then the store and setCache
getUserPermissions(userId) ==
    IF getCacheHit(cache, userId)
    THEN [permissions |-> cache[userId].value, cache |-> cache]
    ELSE [permissions |-> storePermissions(userId),
          cache |-> setCache(cache, userId, storePermissions(userId), CacheTTL)]

\* a hasPermission that does not compare the action
hasPermissionAnyAction(userPermissions, module, action, resource) ==
    \E perm \in userPermissions : perm.module = module /\ perm.resource = resource

hasPermission(userPermissions, module, action, resource) ==
    \E perm \in userPermissions :
        perm.module = module /\ perm.action = action /\ perm.resource = resource

hasTuple(userPermissions, t) == hasPermission(userPermissions, t.module, t.action, t.resource)

\* a checkPermission without the superadmin bypass
checkPermissionNoBypass(userId, g) ==
    IF userId \notin DOMAIN users THEN FALSE
    ELSE hasTuple(getUserPermissions(userId).permissions, PermTuple(g))

\* checkPermission(userId, module, action, resource), for the tuple of permission g
checkPermission(userId, g) ==
    IF userId \notin DOMAIN users THEN FALSE
    ELSE IF users[userId].role = SUPERADMIN THEN TRUE
    ELSE hasTuple(getUserPermissions(userId).permissions, PermTuple(g))

Allowed(b) ==
    IF b THEN Ok
    ELSE insufficientPermissions("You do not have permission to perform this action")

\* requirePermission / requireAnyPermission / requireAllPermissions on req.user,
\* the row authenticate attached; permissions are the tuples of the ids given
requirePermission(reqUser, g) ==
    IF ~reqUser.found THEN unauthorized("Authentication required")
    ELSE IF reqUser.row.role = SUPERADMIN THEN Ok
    ELSE IF ~hasTuple(getUserPermissions(reqUser.id).permissions, PermTuple(g))
         THEN insufficientPermissions(
                  "You do not have permission to <action> <resource> in <module> module")
    ELSE Ok

requireAnyPermission(reqUser, permissions) ==
    IF ~reqUser.found THEN unauthorized("Authentication required")
    ELSE IF reqUser.row.role = SUPERADMIN THEN Ok
    ELSE IF ~(\E g \in permissions :
                  hasTuple(getUserPermissions(reqUser.id).permissions, PermTuple(g)))
         THEN insufficientPermissions(
                  "You do not have sufficient permissions to perform this action")
    ELSE Ok

requireAllPermissions(reqUser, permissions) ==
    IF ~reqUser.found THEN unauthorized("Authentication required")
    ELSE IF reqUser.row.role = SUPERADMIN THEN Ok
    ELSE IF ~(\A g \in permissions :
                  hasTuple(getUserPermissions(reqUser.id).permissions, PermTuple(g)))
         THEN insufficientPermissions(
                  "You do not have all required permissions to perform this action")
    ELSE Ok

\* a protected route: authenticate (the bearer's access token verified), then
\* the permission middleware of the given kind
permissionGate(userId, kind, permissions) ==
    LET reqUser == findUnique(userId) IN
    IF authenticateUser(reqUser) # Ok THEN authenticateUser(reqUser)
    ELSE CASE kind = "requireAnyPermission" -> requireAnyPermission(reqUser, permissions)
           [] kind = "requireAllPermissions" -> requireAllPermissions(reqUser, permissions)
           [] OTHER -> requirePermission(reqUser, CHOOSE g \in permissions : TRUE)

PermissionGates == {"requirePermission", "requireAnyPermission", "requireAllPermissions"}

\* ---------------------------------------------------------- permission service
assignPermissionsToUser(userId, permissionIds) ==
    IF userId \notin DOMAIN users THEN notFound("User not found")
    ELSE IF users[userId].role = SUPERADMIN
         THEN badRequest("Cannot assign permissions to superadmin users")
    ELSE IF ~(permissionIds \subseteq PermIds)
         THEN badRequest("One or more permission IDs are invalid")
    ELSE Ok

revokePermissionsFromUser(userId) ==
    IF userId \notin DOMAIN users THEN notFound("User not found") ELSE Ok

AssignPermissionsToUser(userId, permissionIds) ==
    LET res == assignPermissionsToUser(userId, permissionIds) IN
    /\ userPermission' = IF res = Ok
                         THEN userPermission \cup {<<userId, g>> : g \in permissionIds}
                         ELSE userPermission
    /\ cache' = IF res = Ok THEN deleteCache(cache, userId) ELSE cache
    /\ last' = RespArg("assign", userId, res, permissionIds, cacheHolds(cache, userId))
    /\ UNCHANGED <<users, companyActive, redisUp, now, refreshSecretSet, issued, rotated,
                   preLogout, procs>>

RevokePermissionsFromUser(userId, permissionIds) ==
    LET res == revokePermissionsFromUser(userId) IN
    /\ userPermission' = IF res = Ok
                         THEN userPermission \ {<<userId, g>> : g \in permissionIds}
                         ELSE userPermission
    /\ cache' = IF res = Ok THEN deleteCache(cache, userId) ELSE cache
    /\ last' = RespArg("revoke", userId, res, permissionIds, cacheHolds(cache, userId))
    /\ UNCHANGED <<users, companyActive, redisUp, now, refreshSecretSet, issued, rotated,
                   preLogout, procs>>

CheckPermission(userId, g) ==
    /\ cache' = IF userId \in DOMAIN users /\ users[userId].role # SUPERADMIN
                THEN getUserPermissions(userId).cache
                ELSE cache
    /\ last' = RespArg("checkPermission", userId, Allowed(checkPermission(userId, g)), {g},
                     getCacheHit(cache, userId))
    /\ UNCHANGED <<users, companyActive, userPermission, redisUp, now, refreshSecretSet,
                   issued, rotated, preLogout, procs>>

\* a request to a protected route by the bearer of a verified access token
RequirePermission(userId, kind, permissions) ==
    /\ cache' = IF /\ authenticateUser(findUnique(userId)) = Ok
                   /\ users[userId].role # SUPERADMIN
                THEN getUserPermissions(userId).cache
                ELSE cache
    /\ last' = RespArg(kind, userId, permissionGate(userId, kind, permissions), permissions,
                     getCacheHit(cache, userId))
    /\ UNCHANGED <<users, companyActive, userPermission, redisUp, now, refreshSecretSet,
                   issued, rotated, preLogout, procs>>

\* updateUser with a role in updateData
UpdateUserRole(userId, role) ==
    LET res == updateUser(userId) IN
    /\ users' = IF res = Ok
                THEN [users EXCEPT ![userId] = applyUpdate(@, UpdateData(role, Undefined, FALSE))]
                ELSE users
    /\ cache' = IF res = Ok THEN deleteCache(cache, userId) ELSE cache
    /\ last' = RespArg("updateRole", userId, res, {}, cacheHolds(cache, userId))
    /\ UNCHANGED <<companyActive, userPermission, redisUp, now, refreshSecretSet, issued,
                   rotated, preLogout, procs>>

\* redis 'error' / 'close': commands fail until the client has reconnected
RedisFail ==
    /\ redisUp
    /\ redisUp' = FALSE
    /\ last' = RespArg("redisDown", Undefined, Ok, {}, FALSE)
    /\ UNCHANGED <<users, companyActive, userPermission, cache, now, refreshSecretSet,
                   issued, rotated, preLogout, procs>>

RedisRecover ==
    /\ ~redisUp
    /\ redisUp' = TRUE
    /\ last' = RespArg("redisUp", Undefined, Ok, {}, FALSE)
    /\ UNCHANGED <<users, companyActive, userPermission, cache, now, refreshSecretSet,
                   issued, rotated, preLogout, procs>>

PermTick ==
    /\ now < MaxClock
    /\ now' = now + 1
    /\ last' = RespArg("tick", Undefined, Ok, {}, FALSE)
    /\ UNCHANGED <<users, companyActive, userPermission, cache, redisUp, refreshSecretSet,
                   issued, rotated, preLogout, procs>>

\* --------------------------------------- SpecPerm: sequential permission checks
PermUsers == {"u1"}

\* an identity the store already holds (created through createUser: no session)
StoredUser(role) ==
    [role |-> role, status |-> ACTIVE, password |-> hashPassword(Pw("pw1", "")),
     passwordChangedAt |-> 0 - 1, lastLoginAt |-> 0 - 1, refreshToken |-> NoToken, companyId |-> "c1",
     email |-> "u1"]

InitPerm ==
    /\ InitCommon
    /\ users = [u \in PermUsers |-> StoredUser(VIEWER)]
    /\ procs = << >>

NextAssign == \E u \in PermUsers, gs \in (SUBSET PermIds) \ {{}} : AssignPermissionsToUser(u, gs)
NextRevoke == \E u \in PermUsers, gs \in (SUBSET PermIds) \ {{}} : RevokePermissionsFromUser(u, gs)
NextCheck == \E u \in PermUsers, g \in PermIds : CheckPermission(u, g)
NextUpdateRole == \E u \in PermUsers, r \in USER_ROLES : UpdateUserRole(u, r)
NextRequire ==
    \E u \in PermUsers, gs \in SUBSET PermIds :
        \E kind \in IF Cardinality(gs) = 1 THEN {"requirePermission"}
                     ELSE {"requireAnyPermission", "requireAllPermissions"} :
            RequirePermission(u, kind, gs)
NextPermLogout == \E u \in PermUsers : Logout(u)

NextPerm ==
    \/ NextAssign
    \/ NextRevoke
    \/ NextCheck
    \/ NextUpdateRole
    \/ NextRequire
    \/ NextPermLogout
    \/ NextCompany
    \/ \E u \in PermUsers, by \in Callers : DeleteUser(u, by)
    \/ RedisFail
    \/ RedisRecover
    \/ PermTick

SpecPerm == InitPerm /\ [][NextPerm]_vars

\* the clock, running on for CacheTTL seconds after the last second in which
\* requests are made
ClockTick ==
    /\ now < MaxClock + CacheTTL
    /\ now' = now + 1
    /\ last' = RespArg("tick", Undefined, Ok, {}, FALSE)
    /\ UNCHANGED <<users, companyActive, userPermission, cache, redisUp, refreshSecretSet,
                   issued, rotated, preLogout, procs>>

\* permission requests up to second MaxClock, then a quiet period with no
\* mutation and no cache write, in which only checks that leave the cache as it
\* is are made and time passes
NextPermQuiet ==
    \/ now <= MaxClock /\ NextAssign
    \/ now <= MaxClock /\ NextRevoke
    \/ now <= MaxClock /\ NextCheck
    \/ now <= MaxClock /\ NextPermLogout
    \/ now <= MaxClock /\ RedisFail
    \/ now <= MaxClock /\ RedisRecover
    \/ now > MaxClock /\ NextCheck /\ cache' = cache
    \/ ClockTick

\* time passes: the clock's step is taken whenever it stays enabled
SpecPermQuiet == InitPerm /\ [][NextPermQuiet]_vars /\ WF_vars(ClockTick)

\* C9: with one operation at a time and a cache that takes the delete, a check
\* right after a successful assign of G to a non-superadmin allows G, and a check
\* right after a successful revoke of G denies it, cached list or not.
C9_SequentialCoherency ==
    (/\ last.op \in {"assign", "revoke"}
     /\ last.res = Ok
     /\ redisUp
     /\ users[last.id].role # SUPERADMIN) =>
        \A g \in last.arg : checkPermission(last.id, g) = (last.op = "assign")

\* C9 witness: a revoke for a non-superadmin has just returned, the identity's
\* list was in the cache when it was called, and the check now denies.
C9_Witness ==
    /\ last.op = "revoke" /\ last.res = Ok /\ redisUp /\ last.cached
    /\ users[last.id].role # SUPERADMIN
    /\ \E g \in last.arg : ~checkPermission(last.id, g)

\* C10 (as stated): when assign, revoke or a role-changing updateUser returns
\* success, the identity's cache entry is gone, also when redis.del failed.
C10_InvalidationBeforeReturn ==
    (last.op \in {"assign", "revoke", "updateRole"} /\ last.res = Ok) =>
        ~cacheHolds(cache, last.id)

\* C11: for a non-superadmin, when redis.get fails or the key is absent, the
\* check's result is membership in the store's granted assignments, also when
\* the setCache that follows fails; the request does not fail.
C11_CacheFailureDegradesToStore ==
    /\ \A u \in DOMAIN users, g \in PermIds :
           (users[u].role # SUPERADMIN /\ (~redisUp \/ ~cacheHolds(cache, u))) =>
               checkPermission(u, g) = (<<u, g>> \in userPermission)
    /\ (/\ last.op = "checkPermission" /\ last.id \in DOMAIN users
        /\ users[last.id].role # SUPERADMIN
        /\ (~redisUp \/ ~last.cached)) =>
           \A g \in last.arg : last.res = Allowed(<<last.id, g>> \in userPermission)

\* C11 witness: with redis unreachable and a cached list that lacks the grant,
\* a check has just allowed the grant the store holds.
C11_Witness ==
    /\ last.op = "checkPermission" /\ last.res = Ok /\ ~redisUp
    /\ users[last.id].role # SUPERADMIN
    /\ cacheHolds(cache, last.id)
    /\ \E g \in last.arg : ~hasTuple(cache[last.id].value, PermTuple(g))

C18_LoggedOut ==
    last.op = "logout" =>
        /\ last.res = Ok
        /\ users[last.id].refreshToken = NoToken
        /\ ~cacheHolds(cache, last.id)

C18_SecondLogout ==
    (last.op = "logout" /\ last'.op = "logout" /\ last'.id = last.id) =>
        (users' = users /\ cache' = cache)

\* C18 (as stated): logout of an existing identity succeeds and leaves the
\* stored refresh token null and the identity's cache entry absent, and a
\* second logout changes nothing.
C18_LogoutIdempotent == []C18_LoggedOut /\ [][C18_SecondLogout]_vars

\* C19 (as stated): while a tenant's active flag is false, the authenticate +
\* permission middleware gate and the checkPermission utility deny every
\* member, superadmins and members with cached lists included.
C19_TenantDeactivationBlocksChecks ==
    \A u \in DOMAIN users :
        ~companyActive[users[u].companyId] =>
            \A g \in PermIds :
                /\ \A kind \in PermissionGates : permissionGate(u, kind, {g}) # Ok
                /\ ~checkPermission(u, g)

C20_Bypass ==
    \A u \in DOMAIN users :
        users[u].role = SUPERADMIN =>
            \A gs \in (SUBSET PermIds) \ {{}} :
                /\ \A g \in gs : checkPermission(u, g) /\ requirePermission(findUnique(u), g) = Ok
                /\ requireAnyPermission(findUnique(u), gs) = Ok
                /\ requireAllPermissions(findUnique(u), gs) = Ok
                /\ assignPermissionsToUser(u, gs).kind = "badRequest"

C20_BypassStep ==
    (last'.id \in DOMAIN users /\ users[last'.id].role = SUPERADMIN) =>
        /\ last'.op = "checkPermission" => (last'.res = Ok /\ cache' = cache)
        /\ (last'.op \in PermissionGates /\ companyActive[users[last'.id].companyId]) =>
               (last'.res = Ok /\ cache' = cache)
        /\ last'.op = "assign" =>
               /\ last'.res = badRequest("Cannot assign permissions to superadmin users")
               /\ userPermission' = userPermission
               /\ cache' = cache

\* C20: for a stored role of SUPERADMIN, checkPermission and the three
\* permission middlewares allow every tuple and leave the cache untouched, and
\* assignPermissionsToUser is rejected, creating no assignment and leaving the
\* cache as it was.
C20_SuperadminBypass == []C20_Bypass /\ [][C20_BypassStep]_vars

\* C20 witness: a check for a superadmin has just allowed a tuple that is not
\* assigned while the cache holds a list without it.
C20_Witness ==
    /\ last.op = "checkPermission" /\ last.res = Ok
    /\ users[last.id].role = SUPERADMIN
    /\ cacheHolds(cache, last.id)
    /\ \E g \in last.arg :
           <<last.id, g>> \notin userPermission /\ ~hasTuple(cache[last.id].value, PermTuple(g))

\* C22: for a caller that is not a superadmin, with P the permission list
\* getUserPermissions resolves and L the required list, requireAnyPermission
\* allows iff some tuple of L is in P and requireAllPermissions allows iff
\* every tuple of L is in P, by equality of (module, action, resource); for
\* the empty L any-of denies and all-of allows.  The same holds of the
\* response a route guarded by either middleware has just given.
C22_AnyAllComposition ==
    /\ \A u \in DOMAIN users :
           users[u].role # SUPERADMIN =>
               \A L \in SUBSET PermIds :
                   LET P == getUserPermissions(u).permissions IN
                   /\ (requireAnyPermission(findUnique(u), L) = Ok) =
                          (\E g \in L : PermTuple(g) \in P)
                   /\ (requireAllPermissions(findUnique(u), L) = Ok) =
                          (\A g \in L : PermTuple(g) \in P)
                   /\ requireAnyPermission(findUnique(u), {}) # Ok
                   /\ requireAllPermissions(findUnique(u), {}) = Ok
    /\ (/\ last.op \in {"requireAnyPermission", "requireAllPermissions"}
        /\ authenticateUser(findUnique(last.id)) = Ok
        /\ users[last.id].role # SUPERADMIN) =>
           LET P == getUserPermissions(last.id).permissions IN
           (last.res = Ok) = IF last.op = "requireAnyPermission"
                             THEN \E g \in last.arg : PermTuple(g) \in P
                             ELSE \A g \in last.arg : PermTuple(g) \in P

\* C22 witness: an any-of gate has just allowed a caller that is not a
\* superadmin and holds one tuple of the required list but not the other.
C22_Witness ==
    /\ last.op = "requireAnyPermission" /\ last.res = Ok
    /\ users[last.id].role # SUPERADMIN
    /\ \E g \in last.arg : PermTuple(g) \notin getUserPermissions(last.id).permissions

C26_RejectedStep ==
    (/\ last'.op = "deleteUser"
     /\ last'.id \in DOMAIN users
     /\ (users[last'.id].role = SUPERADMIN \/ last'.id \in last'.arg)) =>
        /\ last'.res # Ok
        /\ users' = users /\ userPermission' = userPermission /\ cache' = cache

C26_RemovedStep ==
    \A u \in DOMAIN users :
        u \notin DOMAIN users' => (users[u].role # SUPERADMIN /\ u \notin last'.arg)

\* C26: deleteUser is rejected, with the identity, its assignment rows and its
\* cache entry as they were, when the target's role is SUPERADMIN or the target
\* is the caller; no step removes a superadmin identity or the caller's own.
C26_DeleteGuards == [][C26_RejectedStep /\ C26_RemovedStep]_vars

\* C26 witness: a deleteUser aimed at a superadmin that holds assignment rows
\* has just been refused.
C26_Witness ==
    /\ last.op = "deleteUser" /\ last.res = forbidden("Cannot delete superadmin user")
    /\ last.id \in DOMAIN users /\ users[last.id].role = SUPERADMIN
    /\ \E g \in PermIds : <<last.id, g>> \in userPermission

\* C21 (as stated): in every state reached through createUser, updateUser with
\* role changes, assignPermissionsToUser and revokePermissionsFromUser, no
\* identity whose role is SUPERADMIN has a UserPermissionAssignment row.
C21_NoSuperadminAssignments ==
    \A u \in DOMAIN users :
        users[u].role = SUPERADMIN => \A g \in PermIds : <<u, g>> \notin userPermission

\* ------------------------------ SpecRefreshRace: interleaved refreshAccessToken
\* A request is at "idle", then after each await of refreshAccessToken:
\* "read" (findUnique returned), "issued" (checks passed, tokens generated,
\* update sent), "done" (response returned).
Refreshers == {"r1", "r2"}

IdleProc ==
    [pc |-> "idle", token |-> NoToken, user |-> findUnique(Undefined),
     tokens |-> [accessToken |-> NoToken, refreshToken |-> NoToken],
     res |-> Ok, overlap |-> FALSE, arg |-> Undefined, fetched |-> {}, after |-> FALSE]

InFlight(p) == procs[p].pc \notin {"idle", "done"}

\* the first store state: u1 as register left it at second 0
RegisteredRow ==
    [role |-> VIEWER, status |-> ACTIVE, password |-> hashPassword(Pw("pw1", "")),
     passwordChangedAt |-> 0 - 1, lastLoginAt |-> 0 - 1, refreshToken |-> NoToken, companyId |-> "c1",
     email |-> "u1"]

InitRefreshRace ==
    /\ companyActive = [c \in CompanyIds |-> TRUE]
    /\ userPermission = {}
    /\ cache = << >>
    /\ redisUp = TRUE
    /\ now = 0
    /\ refreshSecretSet \in BOOLEAN
    /\ users = ("u1" :> [RegisteredRow EXCEPT
                           !.refreshToken = generateTokens("u1", RegisteredRow).refreshToken])
    /\ issued = {generateTokens("u1", RegisteredRow).accessToken,
                 generateTokens("u1", RegisteredRow).refreshToken}
    /\ rotated = [u \in UserIds |-> NoRotation]
    /\ preLogout = [u \in UserIds |-> {}]
    /\ procs = [p \in Refreshers |-> IdleProc]
    /\ last = RespArg("register", "u1", Ok, {<<NoPassword, Pw("pw1", "")>>}, FALSE)

\* verifyRefreshToken, then await prisma.user.findUnique
RefreshRead(p, refreshToken) ==
    /\ procs[p].pc = "idle"
    /\ LET res == refreshVerify(refreshToken)
           others == {q \in Refreshers \ {p} : InFlight(q)}
       IN
       procs' = [q \in Refreshers |->
                   IF q = p
                   THEN [procs[p] EXCEPT
                           !.pc = IF res = Ok THEN "read" ELSE "done",
                           !.token = refreshToken,
                           !.user = IF res = Ok THEN findUnique(refreshToken.payload.id) ELSE @,
                           !.res = res,
                           !.overlap = others # {}]
                   ELSE IF q \in others /\ res = Ok
                        THEN [procs[q] EXCEPT !.overlap = TRUE]
                        ELSE procs[q]]
    /\ UNCHANGED <<users, companyActive, userPermission, cache, redisUp, now,
                   refreshSecretSet, issued, rotated, preLogout, last>>

\* the checks on the row that was read, generateTokens, prisma.user.update sent
RefreshIssue(p) ==
    /\ procs[p].pc = "read"
    /\ LET res == refreshCheckUser(procs[p].user, procs[p].token) IN
       procs' = [procs EXCEPT
                   ![p].pc = IF res = Ok THEN "issued" ELSE "done",
                   ![p].res = res,
                   ![p].tokens = IF res = Ok
                                 THEN generateTokens(procs[p].user.id, procs[p].user.row)
                                 ELSE @]
    /\ UNCHANGED <<users, companyActive, userPermission, cache, redisUp, now,
                   refreshSecretSet, issued, rotated, preLogout, last>>

\* prisma.user.update({ where: { id }, data: { refreshToken } }) lands; return
RefreshCommit(p) ==
    /\ procs[p].pc = "issued"
    /\ users' = [users EXCEPT ![procs[p].user.id].refreshToken = procs[p].tokens.refreshToken]
    /\ issued' = issued \cup {procs[p].tokens.accessToken, procs[p].tokens.refreshToken}
    /\ procs' = [procs EXCEPT ![p].pc = "done"]
    /\ last' = Resp("refresh", procs[p].user.id, Ok)
    /\ UNCHANGED <<companyActive, userPermission, cache, redisUp, now, refreshSecretSet,
                   rotated, preLogout>>

RaceTick ==
    /\ now < MaxClock
    /\ now' = now + 1
    /\ UNCHANGED <<users, companyActive, userPermission, cache, redisUp, refreshSecretSet,
                   issued, rotated, preLogout, procs, last>>

NextRefreshRead ==
    \E p \in Refreshers, t \in {x \in issued : IsRefreshToken(x)} : RefreshRead(p, t)
NextRefreshIssue == \E p \in Refreshers : RefreshIssue(p)
NextRefreshCommit == \E p \in Refreshers : RefreshCommit(p)

NextRefreshRace ==
    \/ NextRefreshRead
    \/ NextRefreshIssue
    \/ NextRefreshCommit
    \/ \E u \in DOMAIN users : Logout(u)
    \/ RaceTick

SpecRefreshRace == InitRefreshRace /\ [][NextRefreshRace]_vars

\* C32 (as stated): once logout has returned for an identity and no login has
\* followed, its stored refresh token is null, whatever refreshAccessToken
\* calls read the identity before the clearing write and write after it.
C32_ClearingWinsAgainstRefresh ==
    \A u \in DOMAIN users : preLogout[u] # {} => users[u].refreshToken = NoToken

\* C2 (as stated): of two overlapping refresh calls that present the same
\* token, stored when they were made, exactly one succeeds, the other fails
\* with Unauthorized, and the stored token is the one the winner was given.
C2_ConcurrentRefresh ==
    (/\ \A p \in Refreshers : procs[p].pc = "done" /\ procs[p].overlap
     /\ procs["r1"].token = procs["r2"].token
     /\ \A p \in Refreshers : procs[p].user.row.refreshToken = procs[p].token) =>
        \E w \in Refreshers :
            /\ procs[w].res = Ok
            /\ users[procs[w].user.id].refreshToken = procs[w].tokens.refreshToken
            /\ \A l \in Refreshers \ {w} : procs[l].res.kind = "unauthorized"

\* ------------------------- SpecPermRace: checks interleaved with a revocation
\* A check is at "idle", then after each await of checkPermission /
\* getUserPermissions: "miss" (getCache returned null), "fetched" (findMany
\* returned), "done". The revocation is at "idle", "deleted" (deleteMany
\* returned), "done" (deleteCache returned, the call has returned).
Checkers == {"k1", "k2"}
Revoker == "v"
RevokedPerm == "g1"

InitPermRace ==
    /\ InitCommon
    /\ users = [u \in PermUsers |-> StoredUser(VIEWER)]
    /\ procs = [p \in Checkers \cup {Revoker} |-> IdleProc]

PermRaceUnchanged ==
    UNCHANGED <<users, companyActive, redisUp, now, refreshSecretSet, issued, rotated,
                preLogout, last>>

\* checkPermission begins: role read, then await getCache
CheckCacheRead(p, userId, g) ==
    /\ procs[p].pc = "idle"
    /\ userId \in DOMAIN users /\ users[userId].role # SUPERADMIN
    /\ procs' = [procs EXCEPT
                   ![p].pc = IF getCacheHit(cache, userId) THEN "done" ELSE "miss",
                   ![p].arg = g,
                   ![p].after = (procs[Revoker].pc = "done"),
                   ![p].res = IF getCacheHit(cache, userId)
                              THEN Allowed(hasTuple(cache[userId].value, PermTuple(g)))
                              ELSE @]
    /\ UNCHANGED <<userPermission, cache>>
    /\ PermRaceUnchanged

\* await prisma.userPermission.findMany
CheckStoreRead(p, userId) ==
    /\ procs[p].pc = "miss"
    /\ procs' = [procs EXCEPT
                   ![p].pc = "fetched",
                   ![p].fetched = storePermissions(userId)]
    /\ UNCHANGED <<userPermission, cache>>
    /\ PermRaceUnchanged

\* await setCache, then hasPermission on the fetched list
CheckCacheWrite(p, userId) ==
    /\ procs[p].pc = "fetched"
    /\ cache' = setCache(cache, userId, procs[p].fetched, CacheTTL)
    /\ procs' = [procs EXCEPT
                   ![p].pc = "done",
                   ![p].res = Allowed(hasTuple(procs[p].fetched, PermTuple(procs[p].arg)))]
    /\ UNCHANGED userPermission
    /\ PermRaceUnchanged

\* a finished check leaves; the same client may check again
CheckReturn(p) ==
    /\ procs[p].pc = "done"
    /\ procs' = [procs EXCEPT ![p] = IdleProc]
    /\ UNCHANGED <<userPermission, cache>>
    /\ PermRaceUnchanged

\* an earlier assignPermissionsToUser, run to completion
RaceAssign(userId) ==
    /\ procs[Revoker].pc = "idle"
    /\ <<userId, RevokedPerm>> \notin userPermission
    /\ \A k \in Checkers : procs[k].pc = "idle"
    /\ userPermission' = userPermission \cup {<<userId, RevokedPerm>>}
    /\ cache' = deleteCache(cache, userId)
    /\ UNCHANGED procs
    /\ PermRaceUnchanged

\* revokePermissionsFromUser: findUnique, then await deleteMany
RevokeStoreDelete(userId) ==
    /\ procs[Revoker].pc = "idle"
    /\ <<userId, RevokedPerm>> \in userPermission
    /\ userPermission' = userPermission \ {<<userId, RevokedPerm>>}
    /\ procs' = [procs EXCEPT ![Revoker].pc = "deleted", ![Revoker].arg = RevokedPerm]
    /\ UNCHANGED cache
    /\ PermRaceUnchanged

\* await deleteCache, then return
RevokeCacheDelete(userId) ==
    /\ procs[Revoker].pc = "deleted"
    /\ cache' = deleteCache(cache, userId)
    /\ procs' = [procs EXCEPT ![Revoker].pc = "done"]
    /\ UNCHANGED userPermission
    /\ PermRaceUnchanged

PermRaceTick ==
    /\ now < MaxClock
    /\ now' = now + 1
    /\ UNCHANGED <<users, companyActive, userPermission, cache, redisUp, refreshSecretSet,
                   issued, rotated, preLogout, procs, last>>

NextCheckCacheRead == \E p \in Checkers, g \in PermIds : CheckCacheRead(p, "u1", g)
NextCheckStoreRead == \E p \in Checkers : CheckStoreRead(p, "u1")
NextCheckCacheWrite == \E p \in Checkers : CheckCacheWrite(p, "u1")
NextCheckReturn == \E p \in Checkers : CheckReturn(p)

NextPermRace ==
    \/ RaceAssign("u1")
    \/ NextCheckCacheRead
    \/ NextCheckStoreRead
    \/ NextCheckCacheWrite
    \/ NextCheckReturn
    \/ RevokeStoreDelete("u1")
    \/ RevokeCacheDelete("u1")
    \/ PermRaceTick

SpecPermRace == InitPermRace /\ [][NextPermRace]_vars

\* C3 (as stated): a check that begins after revokePermissionsFromUser(U, G)
\* has returned denies G, whatever checks overlapped the revocation.
C3_StrictRevocation ==
    \A p \in Checkers :
        (procs[p].pc = "done" /\ procs[p].after /\ procs[p].arg = RevokedPerm) =>
            procs[p].res # Ok

\* ------------------------------------------- SpecUsers: user management routes
\* requireRole(...roles) on req.user, the row authenticate attached
requireRole(reqUser, roles) ==
    IF ~reqUser.found THEN unauthorized("Authentication required")
    ELSE IF reqUser.row.role \notin roles
         THEN insufficientPermissions("This action requires one of the following roles: <roles>")
    ELSE Ok

requireOwnershipOrAdmin(reqUser, targetUserId) ==
    IF ~reqUser.found THEN unauthorized("Authentication required")
    ELSE IF reqUser.id # targetUserId /\ reqUser.row.role \notin {SUPERADMIN, "COMPANY_ADMIN"}
         THEN forbidden("You do not have permission to access this resource")
    ELSE Ok

\* a toggleUserStatusSchema whose reason is optional for every status
toggleUserStatusSchemaReasonOptional(status, reason) == Ok

\* validateBody(toggleUserStatusSchema) on a body { id, status, reason } whose
\* id is a uuid: status one of the three values; reason a string (Joi.string()
\* refuses the empty string), required when the status is SUSPENDED
toggleUserStatusSchema(status, reason) ==
    IF status \notin USER_STATUS \/ reason = "" \/ (status = SUSPENDED /\ reason = Undefined)
    THEN badRequest("Validation failed")
    ELSE Ok

\* changeUserStatus -> activateUser / deactivateUser / suspendUser, up to the
\* updateUser they end in; the reason is only written to the log
changeUserStatus(userId, status, changedBy, reason) ==
    IF status \notin USER_STATUS THEN badRequest("Invalid status value")
    ELSE IF status = INACTIVE /\ userId = changedBy
         THEN badRequest("Cannot deactivate your own account")
    ELSE IF status = SUSPENDED /\ userId = changedBy
         THEN badRequest("Cannot suspend your own account")
    ELSE updateUser(userId)

\* PATCH /users/:id by the bearer of a verified access token: authenticate,
\* validateBody(updateUserSchema) (role and status are fields of it),
\* requireOwnershipOrAdmin('id'), updateUser(req.params.id, req.body, req.user.id)
PatchUser(caller, userId, updateData) ==
    LET reqUser == findUnique(caller)
        res == IF authenticateUser(reqUser) # Ok THEN authenticateUser(reqUser)
               ELSE IF requireOwnershipOrAdmin(reqUser, userId) # Ok
                    THEN requireOwnershipOrAdmin(reqUser, userId)
               ELSE updateUser(userId)
    IN
    /\ users' = IF res = Ok
                THEN [users EXCEPT ![userId] = applyUpdate(@, updateData)]
                ELSE users
    /\ cache' = IF res = Ok /\ updateData.role # Undefined
                THEN deleteCache(cache, userId)
                ELSE cache
    /\ rotated' = IF res = Ok THEN ResetRotated(userId) ELSE rotated
    /\ last' = RespArg("PATCH /users/:id", userId, res,
                       {<<caller, updateData.status, Undefined>>}, FALSE)
    /\ UNCHANGED <<companyActive, userPermission, redisUp, now, refreshSecretSet, issued,
                   preLogout, procs>>

\* POST /users/:id/status: authenticate, requireRole(SUPERADMIN, COMPANY_ADMIN),
\* validateBody(toggleUserStatusSchema), changeUserStatus(id, status, req.user.id, reason)
PostUserStatus(caller, userId, status, reason) ==
    LET reqUser == findUnique(caller)
        gate == requireRole(reqUser, {SUPERADMIN, "COMPANY_ADMIN"})
        res == IF authenticateUser(reqUser) # Ok THEN authenticateUser(reqUser)
               ELSE IF gate # Ok THEN gate
               ELSE IF toggleUserStatusSchema(status, reason) # Ok
                    THEN toggleUserStatusSchema(status, reason)
               ELSE changeUserStatus(userId, status, caller, reason)
    IN
    /\ users' = IF res = Ok
                THEN [users EXCEPT ![userId] =
                         applyUpdate(@, UpdateData(Undefined, status, status # ACTIVE))]
                ELSE users
    /\ rotated' = IF res = Ok THEN ResetRotated(userId) ELSE rotated
    /\ last' = RespArg("POST /users/:id/status", userId, res, {<<caller, status, reason>>},
                       FALSE)
    /\ UNCHANGED <<companyActive, userPermission, cache, redisUp, now, refreshSecretSet,
                   issued, preLogout, procs>>

\* a verifyToken that does not read the tenant's flag
verifyTokenIgnoringCompany(userId) ==
    LET user == findUnique(userId) IN user.found /\ user.row.status = ACTIVE

verifyToken(userId) ==
    LET user == findUnique(userId) IN
    IF ~user.found THEN FALSE
    ELSE IF user.row.status # ACTIVE THEN FALSE
    ELSE IF ~user.companyIsActive THEN FALSE
    ELSE TRUE

\* ApiResponse.success({ valid: isValid }, 'Token is valid')
validResponse(isValid) ==
    ApiErr("ok", 200, "NONE", IF isValid THEN "valid: true" ELSE "valid: false")

VerifyToken(userId) ==
    /\ last' = RespArg("verifyToken", userId, validResponse(verifyToken(userId)), {}, FALSE)
    /\ UNCHANGED <<users, companyActive, userPermission, cache, redisUp, now,
                   refreshSecretSet, issued, rotated, preLogout, procs>>

\* DELETE /users/:id: authenticate, requireRole(SUPERADMIN, COMPANY_ADMIN),
\* deleteUser(req.params.id, req.user.id)
DeleteUserRoute(caller, userId) ==
    LET reqUser == findUnique(caller)
        gate == IF authenticateUser(reqUser) # Ok THEN authenticateUser(reqUser)
                ELSE requireRole(reqUser, {SUPERADMIN, "COMPANY_ADMIN"})
    IN
    IF gate # Ok THEN Rejected("deleteUser", userId, gate) ELSE DeleteUser(userId, caller)

\* the store holds an administrator of tenant c1 and a viewer of tenant c1 or
\* c2, each as register left it: a session stored, its tokens with the client
InitUsers ==
    /\ now = 0
    /\ refreshSecretSet \in BOOLEAN
    /\ \E c \in {"c1", "c2"} :
           users = [u \in UserIds |->
                      LET row == [StoredUser(IF u = "u1" THEN "COMPANY_ADMIN" ELSE VIEWER)
                                      EXCEPT !.email = u,
                                             !.companyId = IF u = "u1" THEN "c1" ELSE c]
                      IN [row EXCEPT !.refreshToken = generateTokens(u, row).refreshToken]]
    /\ issued = UNION {{generateTokens(u, users[u]).accessToken,
                        generateTokens(u, users[u]).refreshToken} : u \in UserIds}
    /\ companyActive = [c \in {"c1", "c2"} |-> TRUE]
    /\ userPermission = {}
    /\ cache = << >>
    /\ redisUp = TRUE
    /\ rotated = [u \in UserIds |-> NoRotation]
    /\ preLogout = [u \in UserIds |-> {}]
    /\ last = RespArg("start", Undefined, Ok, {}, FALSE)
    /\ procs = << >>

NextUsers ==
    \/ \E caller \in UserIds, u \in UserIds, status \in USER_STATUS :
           PatchUser(caller, u, UpdateData(Undefined, status, FALSE))
    \/ \E caller \in UserIds, u \in UserIds, status \in USER_STATUS :
           \E reason \in {Undefined, "", "policy breach"} :
               PostUserStatus(caller, u, status, reason)
    \/ \E u \in UserIds \cup {"u0"} : VerifyToken(u)
    \/ NextCompany

SpecUsers == InitUsers /\ [][NextUsers]_vars

\* the user routes under two tenants and a clock: role changes, status changes,
\* deletion, and the authenticate middleware on the tokens the clients hold
NextTenants ==
    \/ \E caller \in UserIds, u \in UserIds, role \in {SUPERADMIN, VIEWER} :
           PatchUser(caller, u, UpdateData(role, Undefined, FALSE))
    \/ \E caller \in UserIds, u \in UserIds, status \in USER_STATUS :
           PostUserStatus(caller, u, status, "policy breach")
    \/ \E caller \in UserIds, u \in UserIds : DeleteUserRoute(caller, u)
    \/ \E t \in issued : Authenticate([scheme |-> "Bearer ", token |-> t])
    \/ NextCompany
    \/ Tick

SpecTenants == InitUsers /\ [][NextTenants]_vars

\* the session manager with two identities that hold sessions, next to status
\* changes, deletion, the tenant flag and the clock
NextTokens ==
    \/ \E e \in {"u1", "u0"}, p \in {Pw("pw1", ""), Pw("pw2", "")} : Login(e, p)
    \/ \E t \in issued \cup {NoToken} : RefreshAccessToken(t)
    \/ Logout("u1")
    \/ \E status \in {ACTIVE, INACTIVE} : ChangeUserStatus("u1", status, "u0")
    \/ DeleteUser("u2", "u0")
    \/ NextCompany
    \/ Tick

\* two identities of tenant c1 as register left them, JWT_REFRESH_SECRET
\* configured, and u1's permission list cached by an earlier check
InitTokens ==
    /\ now = 0
    /\ refreshSecretSet = TRUE
    /\ redisUp = TRUE
    /\ users = [u \in UserIds |->
                   LET row == [StoredUser(IF u = "u1" THEN "COMPANY_ADMIN" ELSE VIEWER)
                                   EXCEPT !.email = u]
                   IN [row EXCEPT !.refreshToken = generateTokens(u, row).refreshToken]]
    /\ issued = UNION {{generateTokens(u, users[u]).accessToken,
                        generateTokens(u, users[u]).refreshToken} : u \in UserIds}
    /\ companyActive = [c \in CompanyIds |-> TRUE]
    /\ userPermission = {}
    /\ cache = setCache(<< >>, "u1", {}, CacheTTL)
    /\ rotated = [u \in UserIds |-> NoRotation]
    /\ preLogout = [u \in UserIds |-> {}]
    /\ last = RespArg("start", Undefined, Ok, {}, FALSE)
    /\ procs = << >>

SpecTokens == InitTokens /\ [][NextTokens]_vars

C23_VerifyState ==
    \A id \in UserIds \cup {"u0"} :
        verifyToken(id) = (/\ id \in DOMAIN users
                           /\ users[id].status = ACTIVE
                           /\ companyActive[users[id].companyId])

C23_VerifyStep ==
    last'.op = "verifyToken" =>
        /\ last'.res = validResponse(verifyToken(last'.id))
        /\ UNCHANGED <<users, companyActive, userPermission, cache, redisUp, now,
                       refreshSecretSet, issued, rotated, preLogout, procs>>

\* C23: verifyToken(id) is true iff the identity exists, its status is ACTIVE
\* and its tenant is active in the store as it is now; in every other case the
\* call returns false in a success response, and it never changes the state.
C23_SessionValidity == []C23_VerifyState /\ [][C23_VerifyStep]_vars

\* C23 witness: verifyToken has just returned false for an ACTIVE identity
\* whose tenant is inactive.
C23_Witness ==
    /\ last.op = "verifyToken" /\ last.res = validResponse(FALSE)
    /\ last.id \in DOMAIN users /\ users[last.id].status = ACTIVE
    /\ ~companyActive[users[last.id].companyId]

C27_SelfStep ==
    \A u \in DOMAIN users :
        (/\ last'.op \in {"PATCH /users/:id", "POST /users/:id/status"}
         /\ last'.id = u
         /\ \E a \in last'.arg : a[1] = u) =>
            (users'[u].status \in {INACTIVE, SUSPENDED} => users'[u].status = users[u].status)

\* C27 (as stated): no request of an identity sets that identity's own status
\* to INACTIVE or SUSPENDED, through changeUserStatus or through PATCH /users/:id.
C27_NoSelfDeactivation == [][C27_SelfStep]_vars

C28_SuspendStep ==
    last'.op = "POST /users/:id/status" =>
        \A a \in last'.arg :
            a[2] = SUSPENDED =>
                /\ last'.res = Ok => a[3] \notin {Undefined, ""}
                /\ a[3] \in {Undefined, ""} => (last'.res # Ok /\ users' = users)

toLowerCaseAsTyped(email) == email

\* String.prototype.toLowerCase over the addresses requests carry
toLowerCase(email) == IF email = "A@x.io" THEN "a@x.io" ELSE email

\* a register that gives every new identity the default role
registerRoleDefaultOnly(role) == VIEWER

\* role: role || USER_ROLES.VIEWER
registerRole(role) == IF role = Undefined THEN VIEWER ELSE role

\* the unique index on User.email: findUnique({ where: { email } }) finds the
\* row, and prisma.user.create fails with P2002 when one exists
emailIndexTaken(email) == \E u \in DOMAIN users : users[u].email = email

IdleRegistration ==
    [pc |-> "idle", kind |-> Undefined, email |-> Undefined, companyId |-> Undefined,
     role |-> Undefined, res |-> Ok, created |-> Undefined]

InitRegister ==
    /\ InitCommon
    /\ users = << >>
    /\ procs = [p \in {"p1", "p2"} |-> IdleRegistration]

\* register / createUser up to their first await: findUnique by the lowercased email
RegFindEmail(p, kind, email, companyId, role) ==
    /\ procs[p].pc = "idle"
    /\ procs' = [procs EXCEPT ![p] =
          [IdleRegistration EXCEPT
             !.kind = kind, !.email = email, !.companyId = companyId, !.role = role,
             !.pc = IF emailIndexTaken(toLowerCase(email)) THEN "done" ELSE "emailFree",
             !.res = IF emailIndexTaken(toLowerCase(email))
                     THEN ApiErr("conflict", 409, "DB_DUPLICATE_ENTRY",
                                 "User with this email already exists")
                     ELSE Ok]]
    /\ UNCHANGED <<users, companyActive, userPermission, cache, redisUp, now,
                   refreshSecretSet, issued, rotated, preLogout, last>>

\* company.findUnique: both need the company, register also needs it active
RegFindCompany(p) ==
    LET r == procs[p]
        res == IF r.companyId \notin DOMAIN companyActive THEN notFound("Company not found")
               ELSE IF r.kind = "register" /\ ~companyActive[r.companyId]
                    THEN badRequest("Cannot register user for inactive company")
               ELSE Ok
    IN
    /\ r.pc = "emailFree"
    /\ procs' = [procs EXCEPT ![p].pc = IF res = Ok THEN "companyOk" ELSE "done",
                              ![p].res = res]
    /\ UNCHANGED <<users, companyActive, userPermission, cache, redisUp, now,
                   refreshSecretSet, issued, rotated, preLogout, last>>

\* prisma.user.create with the lowercased email under a new id; a P2002 from
\* the unique index reaches the client as a conflict (handlePrismaError)
RegCreate(p) ==
    LET r == procs[p]
        id == IF "u1" \notin DOMAIN users THEN "u1" ELSE "u2"
        taken == emailIndexTaken(toLowerCase(r.email))
        row == [role |-> registerRole(r.role), status |-> ACTIVE,
                password |-> hashPassword(Pw("pw1", "")), passwordChangedAt |-> 0 - 1, lastLoginAt |-> 0 - 1,
                refreshToken |-> NoToken, companyId |-> r.companyId,
                email |-> toLowerCase(r.email)]
    IN
    /\ r.pc = "companyOk"
    /\ users' = IF taken THEN users ELSE (id :> row) @@ users
    /\ procs' = [procs EXCEPT
          ![p].pc = IF ~taken /\ r.kind = "register" THEN "created" ELSE "done",
          ![p].created = IF taken THEN Undefined ELSE id,
          ![p].res = IF taken
                     THEN ApiErr("conflict", 409, "DB_DUPLICATE_ENTRY",
                                 "A record with this email already exists")
                     ELSE Ok]
    /\ UNCHANGED <<companyActive, userPermission, cache, redisUp, now, refreshSecretSet,
                   issued, rotated, preLogout, last>>

\* register only: generateTokens, then the update that stores the refresh token
RegStoreToken(p) ==
    LET id == procs[p].created
        tokens == generateTokens(id, users[id])
    IN
    /\ procs[p].pc = "created"
    /\ users' = [users EXCEPT ![id].refreshToken = tokens.refreshToken]
    /\ issued' = issued \cup {tokens.accessToken, tokens.refreshToken}
    /\ procs' = [procs EXCEPT ![p].pc = "done"]
    /\ UNCHANGED <<companyActive, userPermission, cache, redisUp, now, refreshSecretSet,
                   rotated, preLogout, last>>

NextRegisterRace ==
    \/ \E p \in DOMAIN procs, email \in {"a@x.io", "A@x.io", "b@x.io"} :
           \/ \E companyId \in {"c1", "c9"}, role \in USER_ROLES \cup {Undefined} :
                  RegFindEmail(p, "register", email, companyId, role)
           \/ RegFindEmail(p, "createUser", email, "c1", Undefined)
    \/ \E p \in DOMAIN procs : RegFindCompany(p)
    \/ \E p \in DOMAIN procs : RegCreate(p)
    \/ \E p \in DOMAIN procs : RegStoreToken(p)
    \/ NextCompany

SpecRegister == InitRegister /\ [][NextRegisterRace]_vars

CaseFolded(email) == CASE email = "A@x.io" -> "a@x.io" [] OTHER -> email

C24_UniqueEmails ==
    \A u, v \in DOMAIN users :
        u # v => CaseFolded(users[u].email) # CaseFolded(users[v].email)

C24_NothingCreated ==
    \A p \in DOMAIN procs :
        (procs[p].pc = "done" /\ procs[p].res # Ok) => procs[p].created = Undefined

C24_RejectedStep ==
    \A p \in DOMAIN procs :
        /\ (/\ procs[p].pc = "idle" /\ procs'[p].pc # "idle"
            /\ \E u \in DOMAIN users :
                   CaseFolded(users[u].email) = CaseFolded(procs'[p].email)) =>
               /\ procs'[p].pc = "done" /\ procs'[p].res.kind = "conflict"
               /\ users' = users
        /\ (/\ procs[p].pc = "emailFree" /\ procs'[p].pc # "emailFree"
            /\ procs[p].kind = "register"
            /\ (procs[p].companyId \notin DOMAIN companyActive
                \/ ~companyActive[procs[p].companyId])) =>
               /\ procs'[p].pc = "done" /\ procs'[p].res.kind \in {"notFound", "badRequest"}
               /\ users' = users

\* C24: register answers Conflict for an email equal, letter case aside, to an
\* existing identity's, and rejects a missing or inactive tenant, creating no
\* identity in those cases; and whatever the interleaving of register and
\* createUser requests, no two identities hold the same lowercased email.
C24_RegistrationUniqueness ==
    [](C24_UniqueEmails /\ C24_NothingCreated) /\ [][C24_RejectedStep]_vars

\* C24 witness: of two overlapping requests whose emails differ in letter case
\* only, one created the identity and the other, having found the email free,
\* was refused at the insert.
C24_Witness ==
    \E p, q \in DOMAIN procs :
        /\ procs[p].pc = "done" /\ procs[p].res = Ok /\ procs[p].created \in DOMAIN users
        /\ procs[q].pc = "done"
        /\ procs[q].res.message = "A record with this email already exists"
        /\ procs[p].email # procs[q].email

\* C25: a register that succeeded created an ACTIVE identity whose role is the
\* role the request carried, SUPERADMIN included, and VIEWER when it carried none.
C25_RegisterHonoursRole ==
    \A p \in DOMAIN procs :
        (procs[p].kind = "register" /\ procs[p].pc = "done" /\ procs[p].res = Ok) =>
            /\ procs[p].created \in DOMAIN users
            /\ users[procs[p].created].status = ACTIVE
            /\ users[procs[p].created].role =
                   IF procs[p].role = Undefined THEN VIEWER ELSE procs[p].role

\* C25 witness: a register that carried the role SUPERADMIN has succeeded.
C25_Witness ==
    \E p \in DOMAIN procs :
        /\ procs[p].kind = "register" /\ procs[p].pc = "done" /\ procs[p].res = Ok
        /\ procs[p].role = SUPERADMIN
        /\ users[procs[p].created].role = SUPERADMIN
        /\ users[procs[p].created].refreshToken # NoToken

\* ---- claims on the user routes under two tenants ----

C33_SelfRoleStep ==
    \A u \in DOMAIN users :
        (/\ last'.op = "PATCH /users/:id"
         /\ last'.id = u
         /\ \E a \in last'.arg : a[1] = u
         /\ users[u].role \notin {SUPERADMIN, "COMPANY_ADMIN"}) =>
            users'[u].role = users[u].role

\* C33 (as stated): an identity whose stored role is neither SUPERADMIN nor
\* COMPANY_ADMIN never changes its own stored role; PATCH /users/:id on its own
\* id leaves the role as it was.
C33_NoSelfEscalation == [][C33_SelfRoleStep]_vars

\* the caller of the request that has just been answered
CallerOf(resp) ==
    IF resp.op = "deleteUser" THEN resp.arg
    ELSE IF resp.op \in {"PATCH /users/:id", "POST /users/:id/status"}
         THEN {a[1] : a \in resp.arg}
    ELSE {}

C34_ForeignTenantStep ==
    \A caller \in DOMAIN users, target \in DOMAIN users :
        (/\ caller \in CallerOf(last')
         /\ last'.id = target
         /\ users[caller].role = "COMPANY_ADMIN"
         /\ users[target].companyId # users[caller].companyId) =>
            (target \in DOMAIN users' /\ users'[target] = users[target])

\* C34 (as stated): an update, delete or status change invoked by a
\* COMPANY_ADMIN caller leaves an identity of another tenant as it was.
C34_TenantIsolation == [][C34_ForeignTenantStep]_vars

C35_AuthenticateState ==
    \A t \in issued :
        (~IsRefreshToken(t) /\ Unexpired(t)) =>
            (authenticate(t) = Ok <=>
                 /\ t.payload.id \in DOMAIN users
                 /\ users[t.payload.id].status = ACTIVE
                 /\ companyActive[users[t.payload.id].companyId])

C35_RoleStep ==
    /\ (last'.op \in {"POST /users/:id/status", "deleteUser"} /\ last'.res = Ok) =>
           \A c \in CallerOf(last') :
               /\ c \in DOMAIN users
               /\ users[c].role \in {SUPERADMIN, "COMPANY_ADMIN"}
               /\ ~Gated(c)
    /\ last'.op = "POST /users/:id/status" =>
           \A c \in CallerOf(last') :
               (c \in DOMAIN users /\ ~Gated(c)
                    /\ users[c].role \notin {SUPERADMIN, "COMPANY_ADMIN"}) =>
                   last'.res.kind = "insufficientPermissions"

\* C35: an unexpired, correctly signed access token passes authenticate exactly
\* while its identity exists in the store, is ACTIVE and belongs to an active
\* tenant, whatever status the token carries; and a role-gated route admits the
\* caller exactly on the role stored for it at that moment, whatever role the
\* caller's token carries.
C35_AuthorizationUsesStore == []C35_AuthenticateState /\ [][C35_RoleStep]_vars

\* authenticate has just refused with accountSuspended an unexpired access token
\* whose claims say ACTIVE, after a suspension by an identity that is stored as
\* SUPERADMIN while its own unexpired access token says VIEWER
C35_Witness ==
    /\ last.op = "authenticate"
    /\ last.res = accountSuspended
    /\ \E t \in issued :
           /\ ~IsRefreshToken(t) /\ Unexpired(t)
           /\ t.payload.id = last.id
           /\ t.payload.status = ACTIVE
    /\ \E u \in DOMAIN users, t \in issued :
           /\ users[u].role = SUPERADMIN
           /\ ~IsRefreshToken(t) /\ Unexpired(t)
           /\ t.payload.id = u
           /\ t.payload.role = VIEWER

\* the tokens handed out for identities that have since been deleted
TokensOfDeleted == {t \in issued : t.payload.id \notin DOMAIN users}

\* C38 (as stated): once deleteUser(U) has succeeded, refreshAccessToken with a
\* refresh token of U and authenticate with an access token of U fail with
\* Unauthorized, in every later state.
C38_AsStated ==
    \A t \in TokensOfDeleted :
        IF IsRefreshToken(t) THEN refreshAccessToken(t).kind = "unauthorized"
        ELSE authenticate(t).kind = "unauthorized"

C38_DeletedState ==
    \A t \in TokensOfDeleted :
        IF IsRefreshToken(t)
        THEN refreshAccessToken(t) = IF Unexpired(t) THEN unauthorized("User not found")
                                     ELSE tokenExpired
        ELSE authenticate(t) = IF Unexpired(t)
                               THEN unauthorized("User not found or has been deleted")
                               ELSE tokenExpired

C38_DeletedStep ==
    /\ DOMAIN users' \subseteq DOMAIN users
    /\ (last'.op = "authenticate" /\ last'.id \notin DOMAIN users) =>
           last'.res # Ok

\* C38 (amended): once deleteUser(U) has succeeded, refreshAccessToken with a
\* refresh token of U and authenticate with an access token of U fail in every
\* later state: with Unauthorized while the token is unexpired, with
\* TokenExpired once it has expired; the deleted id never returns to the store.
C38_DeletedTokensRefused == []C38_DeletedState /\ [][C38_DeletedStep]_vars

\* authenticate has just refused the unexpired access token of a deleted
\* identity, whose refresh token is unexpired as well
C38_Witness ==
    /\ last.op = "authenticate"
    /\ last.id \notin DOMAIN users
    /\ last.res = unauthorized("User not found or has been deleted")
    /\ \E t \in TokensOfDeleted :
           IsRefreshToken(t) /\ Unexpired(t) /\ t.payload.id = last.id

\* ---- claims on the session manager with two identities ----

C36_FailedStep ==
    (last'.op \in {"login", "refresh"} /\ last'.res # Ok) =>
        /\ users' = users
        /\ cache' = cache
        /\ issued' = issued

\* C36: a login or refreshAccessToken call that ends in an error leaves every
\* row (stored refresh token, lastLoginAt, password hash, passwordChangedAt,
\* status) and the permission cache as they were, and hands out no token.
C36_FailedCallsChangeNothing == [][C36_FailedStep]_vars

\* a superseded refresh token has just been refused while its identity's row
\* holds the unexpired token that superseded it and a cache entry is present
C36_Witness ==
    /\ last.op = "refresh"
    /\ last.res = unauthorized("Invalid refresh token")
    /\ last.id \in DOMAIN users
    /\ users[last.id].refreshToken # NoToken
    /\ Unexpired(users[last.id].refreshToken)
    /\ users[last.id].lastLoginAt >= 0
    /\ last.id \in DOMAIN cache

C37_StoredTokenState ==
    \A u \in DOMAIN users :
        users[u].refreshToken # NoToken =>
            /\ users[u].refreshToken \in issued
            /\ IsRefreshToken(users[u].refreshToken)
            /\ users[u].refreshToken.payload.id = u

C37_RefreshStep ==
    (last'.op = "refresh" /\ last'.res = Ok) =>
        /\ \A t \in issued' \ issued : t.payload.id = last'.id
        /\ users'[last'.id].refreshToken.payload.id = last'.id
        /\ DOMAIN users' = DOMAIN users
        /\ \A v \in DOMAIN users \ {last'.id} : users'[v] = users[v]

\* C37: in every reachable state an identity's stored refresh token is null or
\* a refresh token handed out with that identity as its subject; and a
\* successful refreshAccessToken(T) hands out tokens whose subject is T's
\* subject and leaves every other identity's row as it was.
C37_TokensNeverCross == []C37_StoredTokenState /\ [][C37_RefreshStep]_vars

\* u2's refresh token has just been exchanged for a new one while u1 holds a
\* session of its own
C37_Witness ==
    /\ last.op = "refresh"
    /\ last.res = Ok
    /\ last.id = "u2"
    /\ users["u2"].refreshToken \notin rotated["u2"].old
    /\ rotated["u2"].old # {}
    /\ users["u1"].refreshToken # NoToken

\* ---- claim on the staleness of the permission cache ----

C39_FiniteTTL == \A u \in DOMAIN cache : cache[u].exp <= now + CacheTTL

C39_RevokedDenied ==
    \A u \in DOMAIN users, g \in PermIds :
        (users[u].role # SUPERADMIN /\ <<u, g>> \notin userPermission) =>
            ~checkPermission(u, g)

\* the cache answers for u with a list that holds a tuple the store has revoked
Stale(u) ==
    /\ getCacheHit(cache, u)
    /\ \E g \in PermIds : PermTuple(g) \in cache[u].value /\ <<u, g>> \notin userPermission

\* C39: every cache entry expires at most CacheTTL seconds after it was
\* written; a stale list stops being served; and once mutations and cache
\* writes have stopped, from some moment on every check of a tuple that the
\* store does not grant is denied.
C39_StalenessBounded ==
    /\ []C39_FiniteTTL
    /\ \A u \in PermUsers : Stale(u) ~> ~Stale(u)
    /\ <>[]C39_RevokedDenied

\* the clock has just passed the expiry of an entry that was left in the cache
\* by a revoke whose redis.del failed: the entry still lists the revoked tuple,
\* redis is up, and the check denies
C39_Witness ==
    /\ last.op = "tick"
    /\ redisUp
    /\ \E u \in DOMAIN cache, g \in PermIds :
           /\ now = cache[u].exp
           /\ PermTuple(g) \in cache[u].value
           /\ <<u, g>> \notin userPermission
           /\ ~checkPermission(u, g)


====
